---- MODULE Spec2Model ----
(***************************************************************************)
(* A model of impedancefitter.main.Fitter: the run orchestration (run,     *)
(* sequential_run), the staged fit (fit_data, fix_parameters,              *)
(* model_iterations) and the emcee post-processing (cluster_emcee_result,  *)
(* emcee_conf_interval, plot_uncertainty_interval).                        *)
(*                                                                         *)
(* Floats are modelled by integers.  The optimizer (lmfit's Model.fit) is  *)
(* an external black box: it returns a result over the same parameter      *)
(* names, moves every varying parameter and leaves a fixed one alone.      *)
(***************************************************************************)
EXTENDS Integers, Sequences, FiniteSets, TLC

VARIABLES
    cfg,                \* the Fitter's kwargs and the arguments of the call
    pc,                 \* position of the call in run / sequential_run
    err,                \* the exception that ended the call, and where
    log,                \* logger messages emitted so far (a set of tags)
    fileIdx,            \* position of `key` in self.omega_dict
    repIdx,             \* loop variable i of run / sequential_run
    iters,              \* self.iters (Unset when the attribute does not exist)
    which,              \* sequential_run: which model is being fitted (1 or 2)
    model_parameters,   \* self.model_parameters
    model_parameters1,  \* self.model_parameters1
    model_parameters2,  \* self.model_parameters2
    params,             \* fit_data: the working copy of the Parameter Set
    model_result,       \* fit_data: the result of the last optimizer call
    stage,              \* fit_data: loop variable i
    fit_iters,          \* fit_data: local iters
    fit_class,          \* fit_data: argument modelclass
    calls,              \* history of the optimizer calls of this fit_data call
    fittedValues,       \* self.fittedValues
    fittedValues1,      \* self.fittedValues1
    fittedValues2,      \* self.fittedValues2
    data,               \* self.data
    nfitted,            \* number of records whose results were recorded
    io,                 \* history of the open() calls on the output files
    dumped,             \* what yaml.dump wrote, per output file
    emcee_tag,          \* self.emcee_tag
    cluster,            \* res.new_chain / res.new_flatchain (and cut)
    ci,                 \* the table emcee_conf_interval returned last
    plot                \* what plot_uncertainty_interval evaluated last

vars == <<cfg, pc, err, log, fileIdx, repIdx, iters, which, model_parameters,
          model_parameters1, model_parameters2, params, model_result, stage,
          fit_iters, fit_class, calls, fittedValues, fittedValues1,
          fittedValues2, data, nfitted, io, dumped, emcee_tag, cluster, ci,
          plot>>

----------------------------------------------------------------------------
(* Bounds of the model *)

\* the optimizer moves a varying parameter by 1..MaxDelta
MaxDelta == 2
\* the upper bound (max) of every parameter of the modelled Parameter Sets
ValueMax == 8
\* the number of files of the data directory, and of measurements of a file
MaxFiles == 2
MaxRows == 2
\* the number of iterations (steps) of a chain
Steps == 2
\* ensembles: up to SmallGood walkers, or between ClusterConstant and
\* ClusterConstant + MaxOver of them, around the mode; up to MaxBad outliers;
\* scores up to MaxSpread apart
SmallGood == 2
MaxOver == 1
MaxBad == 2
MaxSpread == 1
\* the sigma levels a caller asks for: 0..MaxSigma
MaxSigma == 4

\* an attribute that was never assigned (hasattr is false)
Unset == -1

\* cluster_emcee_result: constant = 1e2, assigned before the loop over the
\* differences
ClusterConstant == 100

EmptyFn == [n \in {} |-> 0]

\* no exception was raised
NoError == [type |-> "", at |-> ""]

Min2(a, b) == IF a < b THEN a ELSE b

Range(seq) == {seq[j] : j \in 1..Len(seq)}

\* the array with the elements f[1], ..., f[n], evaluated once
Array(f) == SubSeq(f, 1, Len(f))

----------------------------------------------------------------------------
(* Parameter Sets (lmfit.Parameters): name -> (value, min, max, vary) *)

DoubleShellNames == {"km", "em", "kcp", "ene", "kne", "knp", "kmed", "emed"}
SingleShellNames == {"km", "em", "kcp", "kmed", "emed"}
ColeColeNames    == {"kdc", "eh", "epsi_l", "tau", "a"}
RCNames          == {"Rd", "Cd"}

\* a Parameter Set over `names`, the parameters of `fixed` with vary = False
MkParams(names, fixed) ==
    [n \in names |-> [value |-> 1, min |-> 0, max |-> ValueMax,
                      vary |-> n \notin fixed]]

Names(ps) == DOMAIN ps
NonVarying(ps) == {n \in DOMAIN ps : ~ps[n].vary}

\* lmfit Parameter.set(value=v) / .value = v
SetValue(ps, n, v) == [ps EXCEPT ![n].value = v]
\* lmfit Parameter.set(vary=False) / .vary = False
SetFixed(ps, n) == [ps EXCEPT ![n].vary = FALSE]

----------------------------------------------------------------------------
(* The ensemble the emcee solver sampled.  A result carries the descriptor *)
(* of its chain: `good` walkers around the mode, their scores `spread`     *)
(* apart, and `bad` walkers a `gap` further away, first or last among the  *)
(* walkers.  The arrays res.lnprob and res.chain follow from it.           *)

NoChain == [good |-> 0, bad |-> 0, gap |-> 0, spread |-> 0, front |-> FALSE]

NWalkers(ch) == ch.good + ch.bad

IsBad(ch, w) == IF ch.front THEN w <= ch.bad ELSE w > ch.good

\* the mean negative log-probability the walker w was given
Score(ch, w) ==
    IF IsBad(ch, w)
    THEN LET k == IF ch.front THEN w ELSE w - ch.good
         IN  (ch.good - 1) * ch.spread + ch.gap + (k - 1)
    ELSE LET j == IF ch.front THEN w - ch.bad ELSE w
         IN  (ch.good - j) * ch.spread

\* res.lnprob, of shape (steps, walkers)
LnProb(ch) ==
    [t \in 1..Steps |->
        [w \in 1..NWalkers(ch) |->
            -Score(ch, w) - (IF t = 1 THEN 1 ELSE 0)
                          + (IF t = Steps THEN 1 ELSE 0)]]

\* the column of the varying parameter p in the samples
ParamOffset(p) == IF p = "Rd" THEN 0 ELSE 5

\* res.chain[t][w][p], of shape (steps, walkers, nvarys)
Sample(ch, t, w, p) ==
    (IF IsBad(ch, w) THEN 40 + (w % 2) ELSE 10 + ((w + t) % 3))
        + ParamOffset(p)

----------------------------------------------------------------------------
(* The Fit Result (lmfit ModelResult) *)

NoResult == [set |-> FALSE, params |-> EmptyFn, best_values |-> EmptyFn,
             chain |-> NoChain]

\* model.fit(self.Z, params, ...): the optimizer works on its own copy of
\* params; d is where it moved the varying parameters, ch the chain that
\* emcee sampled (NoChain for another solver)
ModelFit(ps, d, ch) ==
    LET best(n) == IF ps[n].vary THEN Min2(ps[n].value + d, ps[n].max)
                   ELSE ps[n].value
    IN  [set |-> TRUE,
         params |-> [n \in DOMAIN ps |-> [ps[n] EXCEPT !.value = best(n)]],
         best_values |-> [n \in DOMAIN ps |-> best(n)],
         chain |-> ch]

----------------------------------------------------------------------------
(* Fitter.model_iterations and Fitter.fix_parameters *)

\* a mutant of model_iterations: every scheme has two rounds
model_iterations_Two(model) ==
    IF model \notin {"DoubleShell", "SingleShell", "ColeCole"} THEN 1 ELSE 2

iteration_dict ==
    [DoubleShell |-> 4, SingleShell |-> 2, ColeCole |-> 2]

model_iterations(model) ==
    IF model \notin DOMAIN iteration_dict THEN 1 ELSE iteration_dict[model]

\* model_iterations logs when the class has no iterative scheme
model_iterations_log(model) ==
    IF model \notin DOMAIN iteration_dict THEN {"no iterative scheme"} ELSE {}

\* a mutant of fix_dict: the first two lists of DoubleShell change places
fix_dict_Reordered ==
    [DoubleShell |-> << <<"km", "em">>, <<"kmed", "emed">>, <<"kcp">> >>,
     SingleShell |-> << <<"kmed", "emed">> >>,
     ColeCole    |-> << <<"kdc", "eh">> >>]

fix_dict ==
    [DoubleShell |-> << <<"kmed", "emed">>, <<"km", "em">>, <<"kcp">> >>,
     SingleShell |-> << <<"kmed", "emed">> >>,
     ColeCole    |-> << <<"kdc", "eh">> >>]

\* for parameter in result.params:
\*     params[parameter].set(value=result.best_values[parameter])
RECURSIVE CarryForward(_, _, _)
CarryForward(ps, result, todo) ==
    IF todo = {} THEN ps
    ELSE LET n == CHOOSE x \in todo : TRUE
         IN  CarryForward(SetValue(ps, n, result.best_values[n]), result,
                          todo \ {n})

\* for parameter in fix_list: params[parameter].set(vary=False)
\* a name that is no parameter raises KeyError
RECURSIVE FreezeAll(_, _, _)
FreezeAll(ps, fix_list, k) ==
    IF k > Len(fix_list) THEN [raised |-> FALSE, params |-> ps]
    ELSE IF fix_list[k] \notin DOMAIN ps THEN [raised |-> TRUE, params |-> ps]
    ELSE FreezeAll(SetFixed(ps, fix_list[k]), fix_list, k + 1)

\* a mutant of fix_parameters: only the first name of the list is fixed
fix_parameters_OnlyFirst(i, modelname, ps, result) ==
    LET fix_list == fix_dict[modelname][i]
    IN  FreezeAll(CarryForward(ps, result, DOMAIN result.params),
                  <<fix_list[1]>>, 1)

\* a mutant of fix_parameters: the values of the result are not taken over
fix_parameters_NoCarry(i, modelname, ps, result) ==
    FreezeAll(ps, fix_dict[modelname][i], 1)

fix_parameters(i, modelname, ps, result) ==
    LET idx == i - 1
        \* Python list index idx is position idx + 1 of the sequence
        fix_list == fix_dict[modelname][idx + 1]
    IN  FreezeAll(CarryForward(ps, result, DOMAIN result.params), fix_list, 1)

----------------------------------------------------------------------------
(* Inputs: the Fitter's kwargs and the arguments of run / sequential_run.  *)
(* A file of cfg.files is the shape of its impedance array: 0 for a        *)
(* one-dimensional array (a single measurement), n > 0 for a               *)
(* two-dimensional array of n repeated measurements.  Python's None is     *)
(* "None" for a string argument and Unset for data_sets.  cfg.deltas is    *)
(* how far the optimizer may move a varying parameter in this scenario.    *)

ParamChoices ==
    {MkParams(DoubleShellNames, {}), MkParams(DoubleShellNames, {"ene"}),
     MkParams(SingleShellNames, {}), MkParams(ColeColeNames, {}),
     MkParams(ColeColeNames, {"tau"}), MkParams(RCNames, {})}

\* Parameter Sets of two models that share the parameters k and alpha
ColeColeCPE == MkParams(ColeColeNames \cup {"k", "alpha"}, {})
SingleShellCPE == MkParams(SingleShellNames \cup {"k", "alpha"}, {})

\* hand-off lists: tau is no parameter of the second model, km none of the
\* first
CommunicateLists ==
    {<<>>, <<"k">>, <<"k", "alpha">>, <<"k", "tau">>, <<"km", "k">>}

ModelClasses == {"DoubleShell", "SingleShell", "ColeCole", "none", "None"}

\* the chains the emcee solver may return
Goods == (1..SmallGood)
            \cup (ClusterConstant..(ClusterConstant + MaxOver))
Gaps == {1, 2 * ClusterConstant * ClusterConstant}
Chains ==
    {ch \in [good : Goods, bad : 0..MaxBad, gap : Gaps,
             spread : 0..MaxSpread, front : BOOLEAN] :
        ch.bad = 0 => (ch.gap = 1 /\ ~ch.front)}

BaseCfg ==
    [mode |-> "run", LogLevel |-> "WARNING", savefig |-> FALSE,
     write_output |-> FALSE, data_sets |-> Unset, files |-> <<0>>,
     protocol |-> "None", modelclass |-> "none", modelclass2 |-> "None",
     solver |-> "least_squares", deltas |-> {1},
     parameters |-> MkParams(RCNames, {}),
     parameters2 |-> MkParams(RCNames, {}), communicate |-> <<>>]

\* one record, every model class, protocol and Parameter Set
FitCfgs ==
    {[BaseCfg EXCEPT !.LogLevel = l, !.protocol = p, !.modelclass = c,
                     !.parameters = ps, !.deltas = 1..MaxDelta] :
        l \in {"DEBUG", "INFO", "WARNING"}, p \in {"None", "Iterative"},
        c \in ModelClasses, ps \in ParamChoices}

\* one record fitted to two models, every hand-off list
HandOffCfgs ==
    {[BaseCfg EXCEPT !.mode = "sequential_run", !.files = <<1>>,
                     !.deltas = 1..MaxDelta,
                     !.LogLevel = l, !.protocol = p, !.modelclass = c1,
                     !.modelclass2 = c2, !.parameters = ColeColeCPE,
                     !.parameters2 = SingleShellCPE, !.communicate = comm] :
        l \in {"DEBUG", "INFO"}, p \in {"None", "Iterative"},
        c1 \in {"ColeCole", "None"}, c2 \in {"SingleShell", "None"},
        comm \in CommunicateLists}

\* the lists of files of a data directory, and the data_sets kwarg
FileLists == UNION {[1..n -> 0..MaxRows] : n \in 0..MaxFiles}
DataSets == {Unset} \cup 0..MaxRows

\* several files and records, with and without output
LoopCfgs ==
    {[BaseCfg EXCEPT !.mode = m, !.files = f, !.data_sets = ds,
                     !.write_output = w, !.LogLevel = l, !.savefig = sf,
                     !.parameters = ColeColeCPE,
                     !.parameters2 = SingleShellCPE,
                     !.communicate = <<"k">>] :
        m \in {"run", "sequential_run"}, f \in FileLists, ds \in DataSets,
        w \in BOOLEAN, l \in {"DEBUG", "INFO", "WARNING"}, sf \in BOOLEAN}

\* one record sampled by emcee, one or both parameters varying
EmceeCfgs ==
    {[BaseCfg EXCEPT !.solver = "emcee", !.LogLevel = "DEBUG",
                     !.parameters = ps] :
        ps \in {MkParams(RCNames, {}), MkParams(RCNames, {"Cd"})}}

\* several records fitted in stages, one after the other
StagedLoopCfgs ==
    {[BaseCfg EXCEPT !.files = f, !.protocol = "Iterative",
                     !.modelclass = "ColeCole",
                     !.parameters = MkParams(ColeColeNames, {"tau"})] :
        f \in {<<MaxRows>>, <<1, 1>>}}

Cfgs == FitCfgs \cup HandOffCfgs \cup LoopCfgs \cup EmceeCfgs
            \cup StagedLoopCfgs

----------------------------------------------------------------------------
(* Helpers of the actions *)

\* Python's logging levels
LevelOf(l) == CASE l = "DEBUG" -> 10 [] l = "INFO" -> 20 [] l = "WARNING" -> 30

\* open(name, mode): a mode that is no file mode raises ValueError
OpenRaises(mode) == mode \notin {"r", "w", "a", "x"}

\* the call raised: the exception propagates out of run / sequential_run
Raise(e) == /\ pc' = "error"
            /\ err' = [type |-> e, at |-> pc]

\* a call made after the run raised
RaiseIn(e, call) == /\ pc' = "error"
                    /\ err' = [type |-> e, at |-> call]

\* a mutant of BeginFit: the scheme is looked up whatever the protocol
BeginFit_IgnoreProtocol(parameters, modelclass) ==
    /\ params' = parameters
    /\ model_result' = NoResult
    /\ fit_iters' = model_iterations(modelclass)
    /\ log' = log \cup model_iterations_log(modelclass)
    /\ stage' = 0
    /\ fit_class' = modelclass
    /\ calls' = <<>>
    /\ pc' = "fit"

\* the first lines of fit_data, up to the loop over the stages
BeginFit(parameters, modelclass) ==
    /\ params' = parameters
    /\ model_result' = NoResult
    /\ fit_iters' = IF cfg.protocol = "Iterative"
                    THEN model_iterations(modelclass) ELSE 1
    /\ log' = log \cup (IF cfg.protocol = "Iterative"
                        THEN model_iterations_log(modelclass) ELSE {})
    /\ stage' = 0
    /\ fit_class' = modelclass
    /\ calls' = <<>>
    /\ pc' = "fit"

\* process_data_from_file after fit_data: `show` is bound only when
\* LogLevel is DEBUG, and read whenever the results are plotted
PlotRaises ==
    /\ LevelOf(cfg.LogLevel) <= 20 \/ cfg.savefig
    /\ cfg.LogLevel # "DEBUG"

----------------------------------------------------------------------------
(* Fitter.run *)

\* run, up to the loop over the files
RunCall ==
    /\ pc = "idle"
    /\ cfg.mode = "run"
    /\ emcee_tag' = (cfg.solver = "emcee")
    /\ model_parameters' = cfg.parameters
    /\ io' = IF cfg.write_output
             THEN Append(io, [file |-> "outfile.yaml", mode |-> "w",
                              done |-> nfitted])
             ELSE io
    /\ fileIdx' = 1
    /\ pc' = "files"
    /\ UNCHANGED <<cfg, err, log, repIdx, iters, which, model_parameters1,
                   model_parameters2, params, model_result, stage, fit_iters,
                   fit_class, calls, fittedValues, fittedValues1,
                   fittedValues2, data, nfitted, dumped, cluster, ci, plot>>

\* a mutant of RunIters: a limit of no data sets counts as one
RunIters_AtLeastOne(shape) ==
    IF cfg.data_sets # Unset
    THEN (IF cfg.data_sets = 0 THEN 1 ELSE cfg.data_sets)
    ELSE IF shape > 0 THEN shape ELSE 1

\* run: self.iters for the file `shape`
RunIters(shape) ==
    IF cfg.data_sets # Unset THEN cfg.data_sets
    ELSE IF shape > 0 THEN shape ELSE 1

\* sequential_run: self.iters for the file `shape`; the default 1 goes to
\* the local iters, so self.iters keeps what it was
SeqIters(shape) ==
    IF cfg.data_sets # Unset THEN cfg.data_sets
    ELSE IF shape > 0 THEN shape ELSE iters

\* the head of the loop over self.omega_dict
NextFile ==
    /\ pc = "files"
    /\ IF fileIdx > Len(cfg.files)
       THEN /\ pc' = "finish"
            /\ UNCHANGED <<iters, repIdx, err>>
       ELSE LET n == IF cfg.mode = "run" THEN RunIters(cfg.files[fileIdx])
                     ELSE SeqIters(cfg.files[fileIdx])
            IN  /\ iters' = n
                /\ repIdx' = 0
                /\ IF n = Unset
                   THEN Raise("AttributeError")
                   ELSE pc' = "records" /\ UNCHANGED err
    /\ UNCHANGED <<cfg, log, fileIdx, which, model_parameters,
                   model_parameters1, model_parameters2, params, model_result,
                   stage, fit_iters, fit_class, calls, fittedValues,
                   fittedValues1, fittedValues2, data, nfitted, io, dumped,
                   emcee_tag, cluster, ci, plot>>

\* self.Z = self.zarray[i] raises IndexError past the last measurement of
\* a two-dimensional array
ZRaises(shape, i) == shape > 0 /\ i >= shape

\* the head of the loop over range(self.iters), into the first fit_data
NextRecord ==
    /\ pc = "records"
    /\ IF repIdx < iters
       THEN IF ZRaises(cfg.files[fileIdx], repIdx)
            THEN /\ Raise("IndexError")
                 /\ UNCHANGED <<fileIdx, which, params, model_result, stage,
                                fit_iters, fit_class, calls, log>>
            ELSE /\ which' = 1
                 /\ BeginFit(IF cfg.mode = "run" THEN model_parameters
                             ELSE model_parameters1, cfg.modelclass)
                 /\ UNCHANGED <<fileIdx, err>>
       ELSE /\ fileIdx' = fileIdx + 1
            /\ pc' = "files"
            /\ UNCHANGED <<err, which, params, model_result, stage,
                           fit_iters, fit_class, calls, log>>
    /\ UNCHANGED <<cfg, repIdx, iters, model_parameters, model_parameters1,
                   model_parameters2, fittedValues, fittedValues1,
                   fittedValues2, data, nfitted, io, dumped, emcee_tag,
                   cluster, ci, plot>>

\* a mutant of FitStage: the loop works on the caller's Parameter Set
FitStage_Alias ==
    /\ pc = "fit"
    /\ LET fp == IF stage > 0
                 THEN fix_parameters(stage, fit_class, params, model_result)
                 ELSE [raised |-> FALSE, params |-> params]
       IN  IF fp.raised
           THEN /\ Raise("KeyError")
                /\ params' = fp.params
                /\ model_parameters' = fp.params
                /\ UNCHANGED <<model_result, calls, stage>>
           ELSE \E d \in cfg.deltas :
                \E ch \in (IF cfg.solver = "emcee" THEN Chains ELSE {NoChain}) :
                    LET r == ModelFit(fp.params, d, ch)
                    IN  /\ model_result' = r
                        /\ params' = fp.params
                        /\ model_parameters' = fp.params
                        /\ calls' = Append(calls, [params |-> fp.params,
                                                   result |-> r])
                        /\ stage' = stage + 1
                        /\ pc' = IF stage + 1 < fit_iters THEN "fit"
                                 ELSE "fitted"
                        /\ UNCHANGED err
    /\ UNCHANGED <<cfg, log, fileIdx, repIdx, iters, which,
                   model_parameters1, model_parameters2, fit_iters, fit_class,
                   fittedValues, fittedValues1, fittedValues2, data, nfitted,
                   io, dumped, emcee_tag, cluster, ci, plot>>

\* one round of the loop of fit_data: fix_parameters (from the second round
\* on) and the optimizer call
FitStage ==
    /\ pc = "fit"
    /\ LET fp == IF stage > 0
                 THEN fix_parameters(stage, fit_class, params, model_result)
                 ELSE [raised |-> FALSE, params |-> params]
       IN  IF fp.raised
           THEN /\ Raise("KeyError")
                /\ params' = fp.params
                /\ UNCHANGED <<model_result, calls, stage>>
           ELSE \E d \in cfg.deltas :
                \E ch \in (IF cfg.solver = "emcee" THEN Chains ELSE {NoChain}) :
                    LET r == ModelFit(fp.params, d, ch)
                    IN  /\ model_result' = r
                        /\ params' = fp.params
                        /\ calls' = Append(calls, [params |-> fp.params,
                                                   result |-> r])
                        /\ stage' = stage + 1
                        /\ pc' = IF stage + 1 < fit_iters THEN "fit"
                                 ELSE "fitted"
                        /\ UNCHANGED err
    /\ UNCHANGED <<cfg, log, fileIdx, repIdx, iters, which, model_parameters,
                   model_parameters1, model_parameters2, fit_iters, fit_class,
                   fittedValues, fittedValues1, fittedValues2, data, nfitted,
                   io, dumped, emcee_tag, cluster, ci, plot>>

\* run: fit_data returned; the rest of process_data_from_file, then
\* process_fitting_results
RunRecordDone ==
    /\ pc = "fitted"
    /\ cfg.mode = "run"
    /\ IF PlotRaises
       THEN /\ Raise("UnboundLocalError")
            /\ UNCHANGED <<fittedValues, data, nfitted, repIdx>>
       ELSE /\ fittedValues' = model_result
            /\ data' = [set |-> TRUE,
                        map |-> (<<fileIdx, repIdx>> :> model_result.best_values)
                                @@ data.map]
            /\ nfitted' = nfitted + 1
            /\ repIdx' = repIdx + 1
            /\ pc' = "records"
            /\ UNCHANGED err
    /\ UNCHANGED <<cfg, log, fileIdx, iters, which, model_parameters,
                   model_parameters1, model_parameters2, params, model_result,
                   stage, fit_iters, fit_class, calls, fittedValues1,
                   fittedValues2, io, dumped, emcee_tag, cluster, ci, plot>>

----------------------------------------------------------------------------
(* Fitter.sequential_run *)

\* sequential_run, up to the loop over the files
SeqCall ==
    /\ pc = "idle"
    /\ cfg.mode = "sequential_run"
    /\ emcee_tag' = (cfg.solver = "emcee")
    /\ model_parameters1' = cfg.parameters
    /\ model_parameters2' = cfg.parameters2
    /\ io' = IF cfg.write_output
             THEN Append(io, [file |-> "outfile.yaml", mode |-> "w",
                              done |-> nfitted])
             ELSE io
    /\ fileIdx' = 1
    /\ pc' = "files"
    /\ UNCHANGED <<cfg, err, log, repIdx, iters, which, model_parameters,
                   params, model_result, stage, fit_iters, fit_class, calls,
                   fittedValues, fittedValues1, fittedValues2, data, nfitted,
                   dumped, cluster, ci, plot>>

\* the first model's fit_data returned; the rest of process_data_from_file
SeqFit1Done ==
    /\ pc = "fitted"
    /\ cfg.mode = "sequential_run"
    /\ which = 1
    /\ IF PlotRaises
       THEN /\ Raise("UnboundLocalError")
            /\ UNCHANGED fittedValues1
       ELSE /\ fittedValues1' = model_result
            /\ pc' = "handoff"
            /\ UNCHANGED err
    /\ UNCHANGED <<cfg, log, fileIdx, repIdx, iters, which, model_parameters,
                   model_parameters1, model_parameters2, params, model_result,
                   stage, fit_iters, fit_class, calls, fittedValues,
                   fittedValues2, data, nfitted, io, dumped, emcee_tag,
                   cluster, ci, plot>>

\* a mutant of Communicate: the value is handed over, vary is left alone
RECURSIVE Communicate_NoFix(_, _, _, _)
Communicate_NoFix(mp2, best1, communicate, k) ==
    IF k > Len(communicate) THEN [raised |-> FALSE, params |-> mp2]
    ELSE LET c == communicate[k]
         IN  IF c \notin DOMAIN best1 \/ c \notin DOMAIN mp2
             THEN [raised |-> TRUE, params |-> mp2]
             ELSE Communicate_NoFix([mp2 EXCEPT ![c].value = best1[c]],
                                    best1, communicate, k + 1)

\* a mutant of Communicate: a name that is no key is skipped
RECURSIVE Communicate_Skip(_, _, _, _)
Communicate_Skip(mp2, best1, communicate, k) ==
    IF k > Len(communicate) THEN [raised |-> FALSE, params |-> mp2]
    ELSE LET c == communicate[k]
         IN  IF c \notin DOMAIN best1 \/ c \notin DOMAIN mp2
             THEN Communicate_Skip(mp2, best1, communicate, k + 1)
             ELSE Communicate_Skip([mp2 EXCEPT ![c].value = best1[c],
                                               ![c].vary = FALSE],
                                   best1, communicate, k + 1)

\* for c in communicate:
\*     self.model_parameters2[c].value = self.fittedValues1.best_values[c]
\*     self.model_parameters2[c].vary = False
\* a KeyError of either lookup is logged and raised again
RECURSIVE Communicate(_, _, _, _)
Communicate(mp2, best1, communicate, k) ==
    IF k > Len(communicate) THEN [raised |-> FALSE, params |-> mp2]
    ELSE LET c == communicate[k]
         IN  IF c \notin DOMAIN best1 \/ c \notin DOMAIN mp2
             THEN [raised |-> TRUE, params |-> mp2]
             ELSE Communicate([mp2 EXCEPT ![c].value = best1[c],
                                          ![c].vary = FALSE],
                              best1, communicate, k + 1)

\* the hand-off loop, into the second model's fit_data
HandOff ==
    /\ pc = "handoff"
    /\ LET h == Communicate(model_parameters2, fittedValues1.best_values,
                            cfg.communicate, 1)
       IN  /\ model_parameters2' = h.params
           /\ IF h.raised
              THEN /\ Raise("KeyError")
                   /\ log' = log \cup {"not a valid model key"}
                   /\ UNCHANGED <<which, params, model_result, stage,
                                  fit_iters, fit_class, calls>>
              ELSE /\ which' = 2
                   /\ BeginFit(h.params, cfg.modelclass2)
                   /\ UNCHANGED err
    /\ UNCHANGED <<cfg, fileIdx, repIdx, iters, model_parameters,
                   model_parameters1, fittedValues, fittedValues1,
                   fittedValues2, data, nfitted, io, dumped, emcee_tag,
                   cluster, ci, plot>>

\* the second model's fit_data returned; the rest of
\* process_data_from_file, then process_sequential_fitting_results
SeqFit2Done ==
    /\ pc = "fitted"
    /\ cfg.mode = "sequential_run"
    /\ which = 2
    /\ IF PlotRaises
       THEN /\ Raise("UnboundLocalError")
            /\ UNCHANGED <<fittedValues2, data, nfitted, repIdx>>
       ELSE /\ fittedValues2' = model_result
            /\ data' = [set |-> TRUE,
                        map |-> (<<fileIdx, repIdx>> :>
                                    [model1 |-> fittedValues1.best_values,
                                     model2 |-> model_result.best_values])
                                @@ data.map]
            /\ nfitted' = nfitted + 1
            /\ repIdx' = repIdx + 1
            /\ pc' = "records"
            /\ UNCHANGED err
    /\ UNCHANGED <<cfg, log, fileIdx, iters, which, model_parameters,
                   model_parameters1, model_parameters2, params, model_result,
                   stage, fit_iters, fit_class, calls, fittedValues,
                   fittedValues1, io, dumped, emcee_tag, cluster, ci, plot>>

\* the end of run / sequential_run: the output file `name`
Finish ==
    /\ pc = "finish"
    /\ LET name == IF cfg.mode = "run" THEN "outfile.yaml"
                   ELSE "outfile-sequential.yaml"
       IN  IF cfg.write_output /\ data.set
           THEN IF OpenRaises("W")
                THEN /\ Raise("ValueError")
                     /\ UNCHANGED <<io, dumped, log>>
                ELSE /\ io' = Append(io, [file |-> name, mode |-> "W",
                                          done |-> nfitted])
                     /\ dumped' = Append(dumped, [file |-> name,
                                                  content |-> data.map])
                     /\ pc' = "done"
                     /\ UNCHANGED <<err, log>>
           ELSE /\ log' = IF ~data.set THEN log \cup {"no file to process"}
                          ELSE log
                /\ pc' = "done"
                /\ UNCHANGED <<err, io, dumped>>
    /\ UNCHANGED <<cfg, fileIdx, repIdx, iters, which, model_parameters,
                   model_parameters1, model_parameters2, params, model_result,
                   stage, fit_iters, fit_class, calls, fittedValues,
                   fittedValues1, fittedValues2, data, nfitted, emcee_tag,
                   cluster, ci, plot>>

----------------------------------------------------------------------------
(* Fitter.cluster_emcee_result.  A Python index i is position i + 1 of a   *)
(* sequence.  The scores are compared exactly; an average difference       *)
(* (x - l0) / (j + 1) is kept as the fraction num / den.                   *)

RECURSIVE SumSeq(_, _)
SumSeq(seq, k) == IF k = 0 THEN 0 ELSE seq[k] + SumSeq(seq, k - 1)

\* np.mean over the iterations (the modelled chains have integer means)
Mean(seq) == SumSeq(seq, Len(seq)) \div Len(seq)

\* np.swapaxes(a, 0, 1)
SwapAxes(a) ==
    [w \in DOMAIN a[1] |-> [t \in DOMAIN a |-> a[t][w]]]

\* walker_prob.append(-np.mean(lnprob[i]))
WalkerProb(lnprob) == [w \in DOMAIN lnprob |-> -Mean(lnprob[w])]

\* np.argsort(walker_prob): numpy leaves the order of equal scores open;
\* tie is the order it takes (by rising or by falling index)
ArgSort(wp, tie) ==
    LET W == Len(wp)
        before(u, w) == IF tie = "rising" THEN u < w ELSE u > w
        rank == Array([w \in 1..W |->
                    Cardinality({u \in 1..W :
                        wp[u] < wp[w] \/ (wp[u] = wp[w] /\ before(u, w))})])
    IN  [r \in 1..W |-> CHOOSE w \in 1..W : rank[w] = r - 1]

\* np.sort(walker_prob)
SortedFields(wp, sorted_indices) ==
    [r \in 1..Len(wp) |-> wp[sorted_indices[r]]]

\* np.diff(sorted_fields)
Differences(sf) == [k \in 1..(Len(sf) - 1) |-> sf[k + 1] - sf[k]]

\* a mutant of AverageDifferences: (x - l0) / (j + 2)
AverageDifferences_OffByOne(sf) ==
    [k \in 1..(Len(sf) - 1) |-> [num |-> sf[k + 1] - sf[1], den |-> k + 1]]

\* [(x - l0) / (j + 1) for j, x in enumerate(sorted_fields[1::])]
AverageDifferences(sf) ==
    [k \in 1..(Len(sf) - 1) |-> [num |-> sf[k + 1] - sf[1], den |-> k]]

\* differences[i] > constant * average_differences[i]
Exceeds(diff, constant, avg) == diff * avg.den > constant * avg.num

\* a mutant of ScanCut: >= in place of >
RECURSIVE ScanCut_GE(_, _, _, _, _)
ScanCut_GE(differences, average_differences, constant, k, cut) ==
    IF k > Len(differences) THEN cut
    ELSE IF differences[k] * average_differences[k].den
                >= constant * average_differences[k].num
         THEN k - 1
         ELSE ScanCut_GE(differences, average_differences, constant, k + 1,
                         cut)

\* for i in range(differences.size): if ...: cut = i; break
RECURSIVE ScanCut(_, _, _, _, _)
ScanCut(differences, average_differences, constant, k, cut) ==
    IF k > Len(differences) THEN cut
    ELSE IF Exceeds(differences[k], constant, average_differences[k])
         THEN k - 1
         ELSE ScanCut(differences, average_differences, constant, k + 1, cut)

\* a mutant of ClusterResult: the scan starts from one walker fewer
ClusterResult_DropLast(res, constant_arg, tie) ==
    LET lnprob == SwapAxes(LnProb(res.chain))
        walker_prob == Array(WalkerProb(lnprob))
        sorted_indices == Array(ArgSort(walker_prob, tie))
        sorted_fields == Array(SortedFields(walker_prob, sorted_indices))
        differences == Array(Differences(sorted_fields))
        average_differences == Array(AverageDifferences(sorted_fields))
        constant == ClusterConstant
        cut == ScanCut(differences, average_differences, constant, 1,
                       Len(walker_prob) - 1)
    IN  [set |-> TRUE, cut |-> cut, constant |-> constant_arg, tie |-> tie,
         sorted_fields |-> sorted_fields,
         new_chain |-> SubSeq(sorted_indices, 1, cut)]

\* the body of cluster_emcee_result for an emcee result: the argument
\* `constant` is overwritten before it is read
ClusterResult(res, constant_arg, tie) ==
    LET lnprob == SwapAxes(LnProb(res.chain))
        walker_prob == Array(WalkerProb(lnprob))
        sorted_indices == Array(ArgSort(walker_prob, tie))
        sorted_fields == Array(SortedFields(walker_prob, sorted_indices))
        differences == Array(Differences(sorted_fields))
        average_differences == Array(AverageDifferences(sorted_fields))
        constant == ClusterConstant
        cut == ScanCut(differences, average_differences, constant, 1,
                       Len(walker_prob))
    IN  [set |-> TRUE, cut |-> cut, constant |-> constant_arg, tie |-> tie,
         sorted_fields |-> sorted_fields,
         new_chain |-> SubSeq(sorted_indices, 1, cut)]

NoCluster == [set |-> FALSE, cut |-> 0, constant |-> 0, tie |-> "",
              sorted_fields |-> <<>>, new_chain |-> <<>>]

\* the constants a caller passes to cluster_emcee_result
CallerConstants == {0, 1, ClusterConstant, 2 * ClusterConstant}

\* a call of cluster_emcee_result(constant=c), the first after the run
ClusterEmceeResult ==
    /\ pc = "done"
    /\ ~cluster.set
    /\ ~plot.set
    /\ \E c \in CallerConstants, tie \in {"rising", "falling"} :
          IF ~fittedValues.set
          THEN /\ Raise("AttributeError")
               /\ UNCHANGED <<cluster, log>>
          ELSE IF ~emcee_tag
          THEN /\ log' = log \cup {"need emcee"}
               /\ UNCHANGED <<pc, err, cluster>>
          ELSE /\ cluster' = ClusterResult(fittedValues, c, tie)
               /\ UNCHANGED <<pc, err, log>>
    /\ UNCHANGED <<cfg, fileIdx, repIdx, iters, which, model_parameters,
                   model_parameters1, model_parameters2, params, model_result,
                   stage, fit_iters, fit_class, calls, fittedValues,
                   fittedValues1, fittedValues2, data, nfitted, io, dumped,
                   emcee_tag, ci, plot>>

----------------------------------------------------------------------------
(* Fitter.emcee_conf_interval.  A quantile level is kept in units of       *)
(* 1 / QScale, rounded to five decimals; a value of the table is kept      *)
(* multiplied by QScale.                                                   *)

QScale == 100000

\* .5 * (1.0 - 0.9973002039367398), .5 * (1.0 - 0.9544997361036416),
\* .5 * (1.0 - 0.6826894921370859), 0.0, and the three with `+`
percentiles == <<135, 2275, 15866, 0, 84134, 97725, 99865>>

\* result.flatchain[p]: the samples of every walker, (steps, walkers) flat
FlatChain(ch, p) ==
    LET W == NWalkers(ch)
    IN  [j \in 1..(Steps * W) |->
            Sample(ch, ((j - 1) \div W) + 1, ((j - 1) % W) + 1, p)]

\* res.new_flatchain[p]: np.take(chain, sorted_indices[:cut], axis=0),
\* of shape (cut, steps, nvarys), reshaped to (-1, nvarys)
NewFlatChain(ch, new_chain, p) ==
    [j \in 1..(Len(new_chain) * Steps) |->
        Sample(ch, ((j - 1) % Steps) + 1, new_chain[((j - 1) \div Steps) + 1], p)]

\* the element at Python index idx of np.sort(x)
OrderStat(x, idx) ==
    CHOOSE v \in Range(x) :
        /\ Cardinality({j \in DOMAIN x : x[j] < v}) <= idx
        /\ Cardinality({j \in DOMAIN x : x[j] <= v}) > idx

\* np.percentile(x, q * 100), linear interpolation, times QScale
Percentile(x, q) ==
    LET n == Len(x)
        pos == q * (n - 1)
        lo == pos \div QScale
        hi == Min2(lo + 1, n - 1)
        fr == pos % QScale
    IN  OrderStat(x, lo) * QScale + fr * (OrderStat(x, hi) - OrderStat(x, lo))

\* list(zip(percentiles, quantile)) over the samples x
QuantileTable(x) ==
    Array([k \in 1..Len(percentiles) |->
        [level |-> percentiles[k], value |-> Percentile(x, percentiles[k])]])

\* pars = [p for p in result.params if result.params[p].vary]
VaryingPars(result) == {n \in DOMAIN result.params : result.params[n].vary}

emcee_conf_interval(result) ==
    [p \in VaryingPars(result) |->
        QuantileTable(Array(FlatChain(result.chain, p)))]

NoInterval == [set |-> FALSE, table |-> EmptyFn, cluster |-> NoCluster]

\* a call of emcee_conf_interval(self.fittedValues), the first after the
\* run; a result of another solver has no flatchain
EmceeConfInterval ==
    /\ pc = "done"
    /\ ~ci.set
    /\ ~plot.set
    /\ IF ~fittedValues.set \/ fittedValues.chain = NoChain
       THEN /\ Raise("AttributeError")
            /\ UNCHANGED ci
       ELSE /\ ci' = [set |-> TRUE, table |-> emcee_conf_interval(fittedValues),
                      cluster |-> cluster]
            /\ UNCHANGED <<pc, err>>
    /\ UNCHANGED <<cfg, log, fileIdx, repIdx, iters, which, model_parameters,
                   model_parameters1, model_parameters2, params, model_result,
                   stage, fit_iters, fit_class, calls, fittedValues,
                   fittedValues1, fittedValues2, data, nfitted, io, dumped,
                   emcee_tag, cluster, plot>>

----------------------------------------------------------------------------
(* Fitter.plot_uncertainty_interval.  A Python index idx of a table is     *)
(* position idx + 1.  The values of the evaluated Parameter Sets are kept  *)
(* multiplied by QScale, as those of the tables are.                       *)

\* the argument sigma: the int val, or a float between val and val + 1
SigmaInputs == [isint : BOOLEAN, val : 0..MaxSigma]

\* the three asserts at the head of plot_uncertainty_interval
SigmaRejected(sigma) == ~sigma.isint \/ sigma.val < 1 \/ sigma.val > 3

\* the probabilities of the table of lmfit's ModelResult.conf_interval()
conf_interval_levels == <<99730, 95450, 68269, 0, 68269, 95450, 99730>>

\* fit_values.conf_interval(): lmfit's estimator, a black box that returns
\* for every varying parameter the bounds at -3, -2, -1, 0, 1, 2, 3 sigma
conf_interval(result) ==
    [p \in VaryingPars(result) |->
        Array([k \in 1..Len(conf_interval_levels) |->
            [level |-> conf_interval_levels[k],
             value |-> (result.best_values[p] + k - 4) * QScale]])]

\* eval1 / eval2: the best values, and ci[p][idx][1] for a parameter of ci
EvalParams(fit_values, table, idx) ==
    [p \in DOMAIN fit_values.params |->
        IF p \in DOMAIN table THEN table[p][idx + 1].value
        ELSE fit_values.best_values[p] * QScale]

\* a mutant of Curve: both Parameter Sets take the lower entry
Curve_SameSide(fit_values, sigma) ==
    LET table == IF cfg.solver # "emcee" THEN conf_interval(fit_values)
                 ELSE emcee_conf_interval(fit_values)
    IN  [table |-> table,
         eval1 |-> EvalParams(fit_values, table, 3 - sigma),
         eval2 |-> EvalParams(fit_values, table, 3 - sigma)]

\* one round of the loop over the fitted models
Curve(fit_values, sigma) ==
    LET table == IF cfg.solver # "emcee" THEN conf_interval(fit_values)
                 ELSE emcee_conf_interval(fit_values)
    IN  [table |-> table,
         eval1 |-> EvalParams(fit_values, table, 3 - sigma),
         eval2 |-> EvalParams(fit_values, table, 3 + sigma)]

NoPlot == [set |-> FALSE, sigma |-> [isint |-> TRUE, val |-> 0],
           curves |-> <<>>]

\* a call of plot_uncertainty_interval(sigma, sequential), the first after
\* the run; getattr raises for a result that was never assigned.  The call
\* neither reads nor writes what the clustering and the interval table
\* leave behind, so it is explored on its own, not interleaved with them.
PlotUncertaintyInterval ==
    /\ pc = "done"
    /\ ~plot.set
    /\ ~cluster.set
    /\ ~ci.set
    /\ \E sigma \in SigmaInputs, sequential \in BOOLEAN :
          IF SigmaRejected(sigma)
          THEN /\ RaiseIn("AssertionError", "plot")
               /\ UNCHANGED plot
          ELSE LET fits == IF sequential
                           THEN <<fittedValues1, fittedValues2>>
                           ELSE <<fittedValues>>
               IN  IF \E i \in 1..Len(fits) : ~fits[i].set
                   THEN /\ RaiseIn("AttributeError", "plot")
                        /\ UNCHANGED plot
                   ELSE /\ plot' = [set |-> TRUE, sigma |-> sigma,
                                    curves |-> [i \in 1..Len(fits) |->
                                        Curve(fits[i], sigma.val)]]
                        /\ UNCHANGED <<pc, err>>
    /\ UNCHANGED <<cfg, log, fileIdx, repIdx, iters, which, model_parameters,
                   model_parameters1, model_parameters2, params, model_result,
                   stage, fit_iters, fit_class, calls, fittedValues,
                   fittedValues1, fittedValues2, data, nfitted, io, dumped,
                   emcee_tag, cluster, ci>>

Init ==
    /\ cfg \in Cfgs
    /\ pc = "idle"
    /\ err = NoError
    /\ log = {}
    /\ fileIdx = 0
    /\ repIdx = 0
    /\ iters = Unset
    /\ which = 1
    /\ model_parameters = EmptyFn
    /\ model_parameters1 = EmptyFn
    /\ model_parameters2 = EmptyFn
    /\ params = EmptyFn
    /\ model_result = NoResult
    /\ stage = 0
    /\ fit_iters = 1
    /\ fit_class = "None"
    /\ calls = <<>>
    /\ fittedValues = NoResult
    /\ fittedValues1 = NoResult
    /\ fittedValues2 = NoResult
    /\ data = [set |-> FALSE, map |-> EmptyFn]
    /\ nfitted = 0
    /\ io = <<>>
    /\ dumped = <<>>
    /\ emcee_tag = FALSE
    /\ cluster = NoCluster
    /\ ci = NoInterval
    /\ plot = NoPlot

Next ==
    \/ RunCall
    \/ NextFile
    \/ NextRecord
    \/ FitStage
    \/ RunRecordDone
    \/ SeqCall
    \/ SeqFit1Done
    \/ HandOff
    \/ SeqFit2Done
    \/ Finish
    \/ ClusterEmceeResult
    \/ EmceeConfInterval
    \/ PlotUncertaintyInterval

Spec == Init /\ [][Next]_vars

----------------------------------------------------------------------------
(* The staged fit: what the optimizer was handed, stage by stage.          *)
(* calls[k] is the optimizer call of stage k - 1 (Python's i = k - 1).     *)

\* the `parameters` argument of the fit_data call in progress (or last made)
FitArg ==
    IF cfg.mode = "run" THEN model_parameters
    ELSE IF which = 1 THEN model_parameters1 ELSE model_parameters2

\* the union of the freeze lists of stages 1..i of a model class
FreezeUnion(class, i) == UNION {Range(fix_dict[class][j]) : j \in 1..i}

\* fit_data is over: it returned, or an exception left it
FitReturned == pc = "fitted"
FitRaised == pc = "error" /\ err.at = "fit"

Staged == cfg.protocol = "Iterative" /\ fit_class \in DOMAIN iteration_dict

\* C1: at every stage i > 0 the non-varying parameters handed to the
\* optimizer are the initially non-varying ones plus the union of the freeze
\* lists of stages 1..i; for DoubleShell from an all-varying set, the 4th
\* call has exactly kmed, emed, km, em, kcp fixed and the rest varying.
C1_CumulativeFreeze ==
    /\ \A k \in 2..Len(calls) :
          NonVarying(calls[k].params)
              = NonVarying(FitArg) \cup FreezeUnion(fit_class, k - 1)
    /\ (fit_class = "DoubleShell" /\ NonVarying(FitArg) = {}
            /\ Len(calls) >= 4)
       => /\ NonVarying(calls[4].params) = {"kmed", "emed", "km", "em", "kcp"}
          /\ \A n \in DOMAIN calls[4].params :
                n \notin {"kmed", "emed", "km", "em", "kcp"}
                    => calls[4].params[n].vary

C1_Witness ==
    /\ FitReturned
    /\ fit_class = "DoubleShell"
    /\ NonVarying(FitArg) = {}
    /\ Len(calls) = 4
    /\ Cardinality(DOMAIN calls[4].params) = 8

\* C2: at every stage i > 0 every parameter of the previous stage's result
\* enters the optimizer with the previous stage's best value.
C2_CarryForward ==
    \A k \in 2..Len(calls) :
        \A n \in DOMAIN calls[k - 1].result.params :
            calls[k].params[n].value = calls[k - 1].result.best_values[n]

\* a parameter that is not frozen enters stage 2 (the 3rd call) with a
\* value that is neither the initial one nor the best value of stage 0
C2_Witness ==
    /\ Len(calls) >= 3
    /\ \E n \in DOMAIN calls[3].params :
          /\ calls[3].params[n].vary
          /\ calls[3].params[n].value # FitArg[n].value
          /\ calls[3].params[n].value # calls[1].result.best_values[n]

\* the freeze table as the specification prints it
SpecFreezeTable ==
    [DoubleShell |-> << {"k", "e"}, {"km", "em"}, {"kcp"} >>,
     SingleShell |-> << {"k", "e"} >>,
     ColeCole    |-> << {"kdc", "eh"} >>]

\* the freeze table with the names of the medium's parameters
FreezeTable ==
    [DoubleShell |-> << {"kmed", "emed"}, {"km", "em"}, {"kcp"} >>,
     SingleShell |-> << {"kmed", "emed"} >>,
     ColeCole    |-> << {"kdc", "eh"} >>]

\* the parameters that stage k - 1 (call k) found fixed and that the stage
\* before it did not
NewlyFixed(k) == NonVarying(calls[k].params) \ NonVarying(calls[k - 1].params)

SpecStageCount == [DoubleShell |-> 4, SingleShell |-> 2, ColeCole |-> 2]

\* a name of the freeze lists of the class that is no parameter
MissingFreezeName(class, ps) ==
    \E j \in 1..Len(fix_dict[class]) : ~(Range(fix_dict[class][j]) \subseteq DOMAIN ps)

\* C4 as stated: a staged fit_data call makes exactly stage_count optimizer
\* calls, however it ends.
C4_AsStated ==
    (Staged /\ (FitReturned \/ FitRaised))
        => Len(calls) = SpecStageCount[fit_class]

\* C4 (amended): a staged fit_data call that returns has made exactly
\* stage_count optimizer calls (2, 4, 2) and returns the result of the last
\* one, which run stores as fittedValues; the call returns whenever every
\* name of the class's freeze lists is a parameter of the Parameter Set,
\* and otherwise raises KeyError after fewer calls.
C4_StageCount ==
    /\ (Staged /\ FitReturned)
          => /\ Len(calls) = SpecStageCount[fit_class]
             /\ model_result = calls[Len(calls)].result
             /\ ~MissingFreezeName(fit_class, FitArg)
    /\ (Staged /\ FitRaised)
          => /\ err.type = "KeyError"
             /\ MissingFreezeName(fit_class, FitArg)
             /\ Len(calls) < SpecStageCount[fit_class]
    /\ (cfg.mode = "run" /\ pc = "records" /\ repIdx > 0)
          => fittedValues = calls[Len(calls)].result

C4_Witness ==
    /\ cfg.mode = "run" /\ pc = "records" /\ repIdx > 0
    /\ Staged /\ fit_class = "DoubleShell"
    /\ Len(calls) = 4
    /\ fittedValues = calls[4].result
    /\ fittedValues # calls[3].result

\* C5: without the Iterative protocol, or for a model class without an
\* entry, fit_data raises nothing and makes exactly one optimizer call, with
\* the initial Parameter Set unchanged.
C5_SingleStage ==
    ~Staged
        => /\ ~FitRaised
           /\ Len(calls) <= 1
           /\ FitReturned => Len(calls) = 1
           /\ \A k \in 1..Len(calls) : calls[k].params = FitArg

\* a table class without the protocol, and the protocol without a table class
C5_Witness ==
    /\ FitReturned
    /\ Len(calls) = 1
    /\ calls[1].params = FitArg
    /\ \/ cfg.protocol # "Iterative" /\ fit_class = "DoubleShell"
       \/ cfg.protocol = "Iterative" /\ fit_class = "None"

----------------------------------------------------------------------------
(* Walker clustering and the confidence intervals of an emcee result *)

\* the sorted scores of the clustered result (sorted_fields)
ClusteredScores == cluster.sorted_fields

\* diff[i] > c * avg_diff[i] for the Python index i of the sorted scores sf
GapExceeds(sf, i, c) ==
    (sf[i + 2] - sf[i + 1]) * (i + 1) > c * (sf[i + 2] - sf[1])

\* cut is the first index whose gap exceeds c times the average gap, and
\* the number of walkers W if there is none
IsFirstCut(sf, cut, c) ==
    LET W == Len(sf)
    IN  \/ /\ cut \in 0..(W - 2)
           /\ GapExceeds(sf, cut, c)
           /\ \A j \in 0..(cut - 1) : ~GapExceeds(sf, j, c)
        \/ /\ cut = W
           /\ \A j \in 0..(W - 2) : ~GapExceeds(sf, j, c)

\* C6: the walkers are sorted by rising score; cut is the first index i with
\* diff[i] > constant * avg_diff[i] (constant being 1e2), W if there is none;
\* the retained walkers are sorted_indices[0:cut]; a gap to an outlier
\* cluster that exceeds constant times the average gap is where the cut is.
C6_FirstCut ==
    cluster.set
        => LET ch == fittedValues.chain
               wp == Array(WalkerProb(SwapAxes(LnProb(ch))))
               sf == ClusteredScores
           IN  /\ Len(sf) = NWalkers(ch)
               /\ Range(sf) = Range(wp)
               /\ \A r \in 1..(Len(sf) - 1) : sf[r] <= sf[r + 1]
               /\ IsFirstCut(sf, cluster.cut, ClusterConstant)
               /\ Len(cluster.new_chain) = cluster.cut
               /\ \A r \in 1..cluster.cut :
                     /\ cluster.new_chain[r] \in 1..NWalkers(ch)
                     /\ wp[cluster.new_chain[r]] = sf[r]
               /\ Cardinality(Range(cluster.new_chain)) = cluster.cut
               /\ (ch.bad > 0 /\ GapExceeds(sf, ch.good - 1, ClusterConstant))
                     => cluster.cut = ch.good - 1

\* an outlier cluster was cut off at the index of its gap
C6_Witness ==
    /\ cluster.set
    /\ fittedValues.chain.bad = MaxBad
    /\ cluster.cut = fittedValues.chain.good - 1
    /\ cluster.cut < NWalkers(fittedValues.chain)

\* C7: the cutoff is computed with the constant the caller passed.
C7_CallerConstant ==
    cluster.set => IsFirstCut(ClusteredScores, cluster.cut, cluster.constant)

\* C8: after clustering, the table of every varying parameter holds the
\* percentiles of the samples of the retained walkers only.
C8_ClusteredInterval ==
    (ci.set /\ ci.cluster.set)
        => \A p \in VaryingPars(fittedValues) :
              ci.table[p]
                  = QuantileTable(Array(NewFlatChain(fittedValues.chain,
                                                     ci.cluster.new_chain, p)))

\* C9: every table has 7 entries, the levels rising and mirrored about the
\* 4th, which is the median (level 0.5); the values do not fall.
C9_QuantileLevels ==
    ci.set
        => \A p \in DOMAIN ci.table :
              LET t == ci.table[p]
              IN  /\ Len(t) = 7
                  /\ \A k \in 1..6 : t[k].level < t[k + 1].level
                  /\ \A k \in 1..7 : t[k].level + t[8 - k].level = QScale
                  /\ 2 * t[4].level = QScale
                  /\ \A k \in 1..6 : t[k].value <= t[k + 1].value

----------------------------------------------------------------------------
(* The hand-off of sequential_run *)

\* C10: whenever the second model's fit is under way, every hand-off name
\* has the first model's best value of this record and vary = False, in
\* model_parameters2 and in what every optimizer call of that fit was handed.
C10_HandOff ==
    (cfg.mode = "sequential_run" /\ which = 2 /\ pc \in {"fit", "fitted"})
        => /\ \A c \in Range(cfg.communicate) :
                 /\ c \in DOMAIN model_parameters2
                 /\ model_parameters2[c].value = fittedValues1.best_values[c]
                 /\ ~model_parameters2[c].vary
                 /\ params[c].value = fittedValues1.best_values[c]
                 /\ ~params[c].vary
                 /\ \A k \in 1..Len(calls) :
                       /\ calls[k].params[c].value
                             = fittedValues1.best_values[c]
                       /\ ~calls[k].params[c].vary
           /\ Len(calls) >= 1 => calls[1].params = model_parameters2

\* two names were handed over, and the values differ from the caller's
C10_Witness ==
    /\ cfg.mode = "sequential_run" /\ which = 2 /\ pc = "fitted"
    /\ cfg.communicate = <<"k", "alpha">>
    /\ calls[1].params["k"].value # cfg.parameters2["k"].value
    /\ calls[1].params["alpha"].value = fittedValues1.best_values["alpha"]
    /\ ~calls[1].params["alpha"].vary

\* a hand-off name that is no parameter of the second model
HandOffMissing ==
    \E c \in Range(cfg.communicate) : c \notin DOMAIN cfg.parameters2

\* C11: with a hand-off name that the second model's Parameter Set lacks,
\* sequential_run raises KeyError at the hand-off (logged, not skipped), the
\* second model's fit never starts, and the record has no persisted entry.
C11_HandOffError ==
    (cfg.mode = "sequential_run" /\ HandOffMissing)
        => /\ which = 1
           /\ fittedValues2 = NoResult
           /\ <<fileIdx, repIdx>> \notin DOMAIN data.map
           /\ dumped = <<>>
           /\ (pc = "error" /\ err.at = "handoff")
                 => /\ err.type = "KeyError"
                    /\ "not a valid model key" \in log
           /\ (pc = "done") => nfitted = 0

\* the first name was handed over, the second one raised
C11_Witness ==
    /\ cfg.mode = "sequential_run"
    /\ cfg.communicate = <<"k", "tau">>
    /\ pc = "error" /\ err.at = "handoff" /\ err.type = "KeyError"
    /\ ~model_parameters2["k"].vary
    /\ fittedValues1.set

----------------------------------------------------------------------------
(* The output file *)

\* run / sequential_run got past the loop over the files
ReachedEnd ==
    pc = "done" \/ (pc = "error" /\ err.at \in {"finish", "done", "plot"})

\* C12: with output writing enabled and at least one record fitted, the run
\* ends normally and the mapping of all fitted records was persisted once.
C12_PersistedOnce ==
    (cfg.write_output /\ nfitted > 0 /\ ReachedEnd)
        => /\ ~(pc = "error" /\ err.at = "finish")
           /\ Len(dumped) = 1
           /\ dumped[1].content = data.map
           /\ Cardinality(DOMAIN data.map) = nfitted

\* C13: an output file is opened only after the last record was fitted, and
\* only when a record was fitted.
C13_OutputAfterAll ==
    \A k \in 1..Len(io) :
        /\ io[k].done > 0
        /\ io[k].done = nfitted
        /\ pc \in {"finish", "done", "error"}

\* no file in the directory, or a limit of no data sets
ZeroRecords == Len(cfg.files) = 0 \/ cfg.data_sets = 0

\* C14: a run over no records does not raise, with or without output
\* writing, logs that there was nothing to process and persists no mapping.
C14_ZeroRecords ==
    ZeroRecords
        => /\ ~(pc = "error" /\ err.at \notin {"done", "plot"})
           /\ nfitted = 0
           /\ ~data.set
           /\ dumped = <<>>
           /\ \A k \in 1..Len(io) : io[k].mode = "w"
           /\ pc \in {"done", "error"} => "no file to process" \in log

\* files in the directory, none of their data sets wanted, output enabled
C14_Witness ==
    /\ cfg.mode = "run"
    /\ Len(cfg.files) = MaxFiles
    /\ cfg.data_sets = 0
    /\ cfg.write_output
    /\ pc = "done"
    /\ "no file to process" \in log

----------------------------------------------------------------------------
(* Degenerate chains and the bounds of the cutoff *)

\* the sorted scores are equally far apart: one walker, identical scores,
\* or uniformly spaced ones
UniformScores(sf) ==
    \A r \in 1..(Len(sf) - 1) : sf[r + 1] - sf[r] = sf[2] - sf[1]

\* C15: clustering a chain of one walker, of walkers with identical scores
\* or of uniformly spaced scores keeps every walker (cut = W) and does not
\* raise.
C15_KeepEverything ==
    /\ (cluster.set /\ UniformScores(ClusteredScores))
          => /\ cluster.cut = NWalkers(fittedValues.chain)
             /\ Len(cluster.new_chain) = NWalkers(fittedValues.chain)
             /\ Range(cluster.new_chain) = 1..NWalkers(fittedValues.chain)
    /\ ~(emcee_tag /\ fittedValues.set /\ pc = "error" /\ err.at = "done")

\* more than ClusterConstant + 1 walkers, uniformly spaced, all kept
C15_Witness ==
    /\ cluster.set
    /\ fittedValues.chain.spread = 1
    /\ NWalkers(fittedValues.chain) > ClusterConstant + 1
    /\ UniformScores(ClusteredScores)
    /\ cluster.cut = NWalkers(fittedValues.chain)

----------------------------------------------------------------------------
(* The confidence-interval query *)

\* C16: a query at sigma in 1..3 takes, for every parameter of the table,
\* the entry at index 3 - sigma as the lower and the one at 3 + sigma as
\* the upper bound: mirrored levels, lower <= upper; any other sigma is
\* rejected before an interval is computed.
C16_SigmaBounds ==
    /\ plot.set
          => /\ plot.sigma.isint
             /\ plot.sigma.val \in 1..3
             /\ \A i \in 1..Len(plot.curves) :
                   LET c == plot.curves[i]
                       lo == 4 - plot.sigma.val
                       up == 4 + plot.sigma.val
                   IN  \A p \in DOMAIN c.table :
                          /\ c.eval1[p] = c.table[p][lo].value
                          /\ c.eval2[p] = c.table[p][up].value
                          /\ c.eval1[p] <= c.eval2[p]
                          /\ cfg.solver = "emcee"
                                => c.table[p][lo].level + c.table[p][up].level
                                       = QScale
    /\ (pc = "error" /\ err.at = "plot") => ~plot.set

\* the bounds at 2 sigma of an emcee result, apart from each other
C16_Witness ==
    /\ plot.set
    /\ cfg.solver = "emcee"
    /\ plot.sigma.val = 2
    /\ \E p \in DOMAIN plot.curves[1].table :
          plot.curves[1].eval1[p] < plot.curves[1].eval2[p]

----------------------------------------------------------------------------
(* The Parameter Set of the caller *)

\* C17: fit_data works on a deep copy: the Parameter Set it was passed is
\* never changed, so in run every record's first stage starts from the
\* initial Parameter Set, whatever was fitted or frozen for a record before.
C17_DeepCopy ==
    /\ (cfg.mode = "run" /\ pc # "idle")
          => model_parameters = cfg.parameters
    /\ (cfg.mode = "sequential_run" /\ pc # "idle")
          => model_parameters1 = cfg.parameters
    /\ (pc \in {"fit", "fitted"} /\ Len(calls) >= 1)
          => calls[1].params = FitArg
    /\ (Len(calls) >= 1 /\ which = 1)
          => calls[1].params = cfg.parameters

\* the second record of a staged run: its first stage started from the
\* initial set, its second one from what the first one fitted and froze
C17_Witness ==
    /\ cfg.mode = "run"
    /\ nfitted >= 1
    /\ Staged
    /\ pc = "fitted"
    /\ Len(calls) = 2
    /\ calls[1].params = cfg.parameters
    /\ calls[2].params # cfg.parameters
    /\ model_parameters = cfg.parameters

----------------------------------------------------------------------------
(* The bounds of the cutoff *)

----------------------------------------------------------------------------
(* The number of records of a file in sequential_run *)

\* C19: in sequential_run the number of records fitted for a file is that
\* of run for the same file (1 for a single measurement without a data_sets
\* limit), whatever file was processed before, and the loop is entered.
C19_ItersFromFile ==
    cfg.mode = "sequential_run"
        => /\ ~(pc = "error" /\ err.at = "files")
           /\ pc \in {"records", "fit", "fitted", "handoff"}
                 => iters = RunIters(cfg.files[fileIdx])

====
